---- MODULE Spec2Model ----
(***************************************************************************)
(* Model of src/main.py: the single-document pipeline that extracts the    *)
(* text of a PDF, splits it into token-bounded chunks, asks the model API  *)
(* for a tutorial after each chunk, extracts + describes + sorts the       *)
(* images, and writes the CSV and the Markdown.                            *)
(*                                                                         *)
(* A text is a sequence of one-character strings.  A token is a non-empty  *)
(* sequence of characters (the bytes it stands for).  Model replies        *)
(* (tutorials, descriptions) are opaque strings.                           *)
(***************************************************************************)
EXTENDS Integers, Sequences, FiniteSets, TLC

VARIABLES
    pc,                 \* position in main (or in the split_text_into_chunks harness)
    pdf,                \* the input document: [exists, pages], pages[p] = [text, nimg]
    max_tokens,         \* split_text_into_chunks' max_tokens argument
    handles,            \* the document / file handles currently open
    full_text,          \* extract_text_from_pdf: full_text
    page_num,           \* loop variable of the page loops (0-based)
    cleaned_text,       \* main: cleaned_text (the text given to split_text_into_chunks)
    chunks,             \* main: chunks (decoded strings)
    chunk_tokens,       \* the token windows the chunks were decoded from
    idx,                \* main: number of chunks already processed by the loop
    contexto_acumulado, \* main: contexto_acumulado
    tutorial_text,      \* main: tutorial_text
    tutorial_requests,  \* the tutorial requests sent to the API, with their outcomes
    page_images,        \* extract_images_from_pdf: page_images of the current page
    img_index,          \* extract_images_from_pdf: next index into page_images
    temp_image_info,    \* extract_images_from_pdf: temp_image_info
    describe_calls,     \* the get_image_description calls made, in call order
    files,              \* names of the image files written completely
    image_descriptions, \* main: image_descriptions (final_image_info)
    csv,                \* the CSV file: [written, header, rows]
    md                  \* the Markdown file: [written, blocks, tutorial]

vars == << pc, pdf, max_tokens, handles, full_text, page_num, cleaned_text, chunks,
           chunk_tokens, idx, contexto_acumulado, tutorial_text, tutorial_requests,
           page_images, img_index, temp_image_info, describe_calls, files,
           image_descriptions, csv, md >>

(***************************************************************************)
(* Bounds of the model.                                                    *)
(***************************************************************************)
\* longest text given to the split_text_into_chunks harness
MaxTextLen == 4
\* largest max_tokens given to the split_text_into_chunks harness
MaxN == 3
\* most pages of a document
MaxPages == 2
\* most embedded images of a document (over all its pages)
MaxImages == 2
\* main calls split_text_into_chunks with the default max_tokens (2000 in the
\* source); the model scales the default down so that a short text yields
\* several chunks
MaxTokensDefault == 2

Chars == {"a", "b", " "}
NL == "\n"
\* the text of the p-th page of a document: consecutive pages differ, so that
\* the chunks of a document differ
PageText(p) == IF p % 2 = 1 THEN <<"a", "b">> ELSE <<"b">>
\* vertical positions (bbox y0) PyMuPDF can report for a placed image
YPositions == {50, 100}

Min(a, b) == IF a <= b THEN a ELSE b

RECURSIVE SeqsUpTo(_, _)
SeqsUpTo(S, n) ==
    IF n = 0 THEN { <<>> }
    ELSE LET shorter == SeqsUpTo(S, n - 1)
         IN  shorter \cup { Append(s, x) : s \in shorter, x \in S }

RECURSIVE Flatten(_)
Flatten(ss) == IF ss = <<>> THEN <<>> ELSE Head(ss) \o Flatten(Tail(ss))

(***************************************************************************)
(* clean_text: the whitespace runs of the text collapse to one space.      *)
(* (No text of the model holds a URL, so the first substitution changes    *)
(* nothing.)                                                               *)
(***************************************************************************)
IsSpace(c) == c \in {" ", NL}

RECURSIVE clean_text(_)
clean_text(text) ==
    IF text = <<>> THEN <<>>
    ELSE IF IsSpace(Head(text))
         THEN IF Len(text) >= 2 /\ IsSpace(text[2])
              THEN clean_text(Tail(text))
              ELSE <<" ">> \o clean_text(Tail(text))
         ELSE <<Head(text)>> \o clean_text(Tail(text))

(***************************************************************************)
(* The tokenizer: a byte-pair encoding with the single merge a,b -> ab.    *)
(***************************************************************************)
RECURSIVE encode(_)
encode(text) ==
    IF text = <<>> THEN <<>>
    ELSE IF Len(text) >= 2 /\ text[1] = "a" /\ text[2] = "b"
         THEN << <<"a", "b">> >> \o encode(Tail(Tail(text)))
         ELSE << <<Head(text)>> >> \o encode(Tail(text))

decode(tokens) == Flatten(tokens)

count_tokens(text) == Len(encode(text))

(***************************************************************************)
(* split_text_into_chunks                                                  *)
(***************************************************************************)
\* faulty variant: range(start, stop + 1, step): the stop is included
RECURSIVE PyRangeInclusive(_, _, _)
PyRangeInclusive(start, stop, step) ==
    IF start > stop THEN <<>>
    ELSE <<start>> \o PyRangeInclusive(start + step, stop, step)

\* Python's range(start, stop, step), step >= 1
RECURSIVE PyRange(_, _, _)
PyRange(start, stop, step) ==
    IF start >= stop THEN <<>>
    ELSE <<start>> \o PyRange(start + step, stop, step)

\* Python's s[i:j] for 0 <= i <= j
PySlice(s, i, j) == SubSeq(s, i + 1, Min(j, Len(s)))

\* faulty variant: the windows are one token too long: tokens[i:i + max_tokens + 1]
token_windows_overlap(tokens, n) ==
    LET starts == PyRange(0, Len(tokens), n)
    IN  [k \in 1..Len(starts) |-> PySlice(tokens, starts[k], starts[k] + n + 1)]

\* the windows tokens[i:i + max_tokens] for i in range(0, len(tokens), max_tokens)
token_windows(tokens, n) ==
    LET starts == PyRange(0, Len(tokens), n)
    IN  [k \in 1..Len(starts) |-> PySlice(tokens, starts[k], starts[k] + n)]

split_text_into_chunks(text, n) ==
    LET windows == token_windows(encode(text), n)
    IN  [k \in 1..Len(windows) |-> decode(windows[k])]

(***************************************************************************)
(* The model API.  A reply is an opaque value; the replies to different    *)
(* requests are different values.  An empty reply is the empty string.     *)
(***************************************************************************)
\* the outcomes of one chat.completions.create call
ApiOutcomes == {"error", "empty", "text"}

\* the message content that the k-th tutorial request gets back
TutorialReply(outcome, k) == IF outcome = "text" THEN <<k>> ELSE <<>>

\* generate_or_update_tutorial: the reply, or "" when the call raises
generate_or_update_tutorial(outcome, k) ==
    IF outcome = "error" THEN <<>> ELSE TutorialReply(outcome, k)

\* the two fixed strings get_image_description returns on failure
SentinelRead ==
    [text |-> "Descricao nao disponivel devido a erro na leitura da imagem.", image |-> <<>>]
SentinelApi ==
    [text |-> "Descricao nao disponivel devido a erro na chamada da API.", image |-> <<>>]
DescriptionReply(image_name) == [text |-> "reply", image |-> image_name]

\* faulty variant: the API call is not inside a try: its exception leaves the function
get_image_description_api_raises(image_name, read_ok, api_ok) ==
    IF ~read_ok THEN [raised |-> FALSE, value |-> SentinelRead]
    ELSE IF ~api_ok THEN [raised |-> TRUE, value |-> SentinelApi]
    ELSE [raised |-> FALSE, value |-> DescriptionReply(image_name)]

\* get_image_description: raised is TRUE when an exception leaves the function
get_image_description(image_name, read_ok, api_ok) ==
    IF ~read_ok THEN [raised |-> FALSE, value |-> SentinelRead]
    ELSE IF ~api_ok THEN [raised |-> FALSE, value |-> SentinelApi]
    ELSE [raised |-> FALSE, value |-> DescriptionReply(image_name)]

(***************************************************************************)
(* extract_images_from_pdf: helpers                                        *)
(***************************************************************************)
\* rect is <<>> (None) or <<y0>>
y_pos_of(rect) == IF rect # <<>> THEN rect[1] ELSE 0

\* the sort key (x["_page"], x["_y_pos"]) compared as Python compares tuples
KeyLE(a, b) == a.page < b.page \/ (a.page = b.page /\ a.y_pos <= b.y_pos)

\* list.sort is stable: r goes after every element whose key is <= its key
RECURSIVE InsertSorted(_, _)
InsertSorted(s, r) ==
    IF s = <<>> THEN <<r>>
    ELSE IF KeyLE(s[Len(s)], r) THEN Append(s, r)
    ELSE Append(InsertSorted(SubSeq(s, 1, Len(s) - 1), r), s[Len(s)])

RECURSIVE SortedList(_)
SortedList(s) ==
    IF s = <<>> THEN <<>>
    ELSE InsertSorted(SortedList(SubSeq(s, 1, Len(s) - 1)), s[Len(s)])

\* faulty variant: the list is left in extraction order
sort_temp_image_info_missing(s) == s

\* temp_image_info.sort(key=lambda x: (x["_page"], x["_y_pos"]))
sort_temp_image_info(s) == SortedList(s)

\* faulty variant: a placeholder record stands for "no image"
final_image_info_placeholder(s) ==
    IF s = <<>>
    THEN << [image_name |-> <<0, 0>>, description |-> SentinelRead] >>
    ELSE [k \in 1..Len(s) |->
            [image_name |-> s[k].image_name, description |-> s[k].description]]

\* faulty variant: every record gets the description of the first one
final_image_info_first_description(s) ==
    [k \in 1..Len(s) |-> [image_name |-> s[k].image_name, description |-> s[1].description]]

\* final_image_info: only image_name and description are kept
final_image_info(s) ==
    [k \in 1..Len(s) |-> [image_name |-> s[k].image_name, description |-> s[k].description]]

\* the page_images list built from the outcomes of doc.extract_image, one per
\* image of the page: the xrefs whose base_image is truthy
RECURSIVE page_images_of(_, _)
page_images_of(outs, from) ==
    IF from > Len(outs) THEN <<>>
    ELSE IF outs[from] = "ok" THEN <<from>> \o page_images_of(outs, from + 1)
    ELSE page_images_of(outs, from + 1)

(***************************************************************************)
(* Reporters                                                               *)
(***************************************************************************)
\* the rows main writes after the header, one per item of image_descriptions
csv_rows(descriptions) == descriptions

\* the image/description blocks create_output_markdown writes: one per item
\* whose file exists in imagens_extraidas
markdown_blocks(descriptions, existing) ==
    SelectSeq(descriptions, LAMBDA d : d.image_name \in existing)

(***************************************************************************)
(* main: helpers                                                           *)
(***************************************************************************)
\* faulty variant: contexto_acumulado = "\n" + chunk: the context is replaced
extend_context_replaces(context, chunk) == <<NL>> \o chunk

\* contexto_acumulado += "\n" + chunk
extend_context(context, chunk) == context \o <<NL>> \o chunk

\* faulty variant: tutorial_text = tutorial, whatever tutorial is
update_tutorial_text_always(old, tutorial) == tutorial

\* if tutorial: tutorial_text = tutorial
update_tutorial_text(old, tutorial) == IF tutorial # <<>> THEN tutorial ELSE old

(***************************************************************************)
(* The documents of the model.                                             *)
(***************************************************************************)
RECURSIVE SumImages(_)
SumImages(pages) ==
    IF pages = <<>> THEN 0 ELSE Head(pages).nimg + SumImages(Tail(pages))

\* the page lists: up to MaxPages pages holding up to MaxImages images in all
Pages ==
    { [p \in 1..Len(ns) |-> [text |-> PageText(p), nimg |-> ns[p]]] :
        ns \in { c \in SeqsUpTo(0..MaxImages, MaxPages) :
                   SumImages([p \in 1..Len(c) |-> [nimg |-> c[p]]]) <= MaxImages } }

Documents ==
    { [exists |-> TRUE, pages |-> ps] : ps \in Pages }
        \cup { [exists |-> FALSE, pages |-> <<>>] }

NoFile == [written |-> FALSE, header |-> <<>>, rows |-> <<>>]
NoMarkdown == [written |-> FALSE, blocks |-> <<>>, tutorial |-> <<>>]

Idle ==
    /\ handles = {}
    /\ full_text = <<>>
    /\ page_num = 0
    /\ chunks = <<>>
    /\ chunk_tokens = <<>>
    /\ idx = 0
    /\ contexto_acumulado = <<>>
    /\ tutorial_text = <<>>
    /\ tutorial_requests = <<>>
    /\ page_images = <<>>
    /\ img_index = 0
    /\ temp_image_info = <<>>
    /\ describe_calls = <<>>
    /\ files = {}
    /\ image_descriptions = <<>>
    /\ csv = NoFile
    /\ md = NoMarkdown

\* main(pdf_path, ...) is about to run on some document
Init ==
    /\ pc = "main"
    /\ pdf \in Documents
    /\ max_tokens = MaxTokensDefault
    /\ cleaned_text = <<>>
    /\ Idle

(***************************************************************************)
(* main, lines 255-261: a missing file ends main at once                   *)
(***************************************************************************)
MainStart ==
    /\ pc = "main"
    /\ pc' = IF pdf.exists THEN "text_open" ELSE "done"
    /\ UNCHANGED << pdf, max_tokens, handles, full_text, page_num, cleaned_text, chunks,
                    chunk_tokens, idx, contexto_acumulado, tutorial_text,
                    tutorial_requests, page_images, img_index, temp_image_info,
                    describe_calls, files, image_descriptions, csv, md >>

(***************************************************************************)
(* extract_text_from_pdf                                                   *)
(***************************************************************************)
TextOpen ==
    /\ pc = "text_open"
    /\ handles' = handles \cup {"text_doc"}
    /\ full_text' = <<>>
    /\ page_num' = 0
    /\ pc' = "text_page"
    /\ UNCHANGED << pdf, max_tokens, cleaned_text, chunks, chunk_tokens, idx,
                    contexto_acumulado, tutorial_text, tutorial_requests, page_images,
                    img_index, temp_image_info, describe_calls, files,
                    image_descriptions, csv, md >>

TextPage ==
    /\ pc = "text_page"
    /\ page_num < Len(pdf.pages)
    /\ full_text' = full_text \o pdf.pages[page_num + 1].text \o <<NL>>
    /\ page_num' = page_num + 1
    /\ UNCHANGED << pc, pdf, max_tokens, handles, cleaned_text, chunks, chunk_tokens, idx,
                    contexto_acumulado, tutorial_text, tutorial_requests, page_images,
                    img_index, temp_image_info, describe_calls, files,
                    image_descriptions, csv, md >>

TextClose ==
    /\ pc = "text_page"
    /\ page_num = Len(pdf.pages)
    /\ handles' = handles \ {"text_doc"}
    /\ cleaned_text' = clean_text(full_text)
    /\ pc' = "split"
    /\ UNCHANGED << pdf, max_tokens, full_text, page_num, chunks, chunk_tokens, idx,
                    contexto_acumulado, tutorial_text, tutorial_requests, page_images,
                    img_index, temp_image_info, describe_calls, files,
                    image_descriptions, csv, md >>

(***************************************************************************)
(* main, lines 267-272: chunks = split_text_into_chunks(cleaned_text)      *)
(***************************************************************************)
Split ==
    /\ pc = "split"
    /\ chunks' = split_text_into_chunks(cleaned_text, max_tokens)
    /\ chunk_tokens' = token_windows(encode(cleaned_text), max_tokens)
    /\ contexto_acumulado' = <<>>
    /\ tutorial_text' = <<>>
    /\ idx' = 0
    /\ pc' = "chunk_loop"
    /\ UNCHANGED << pdf, max_tokens, handles, full_text, page_num, cleaned_text,
                    tutorial_requests, page_images, img_index, temp_image_info,
                    describe_calls, files, image_descriptions, csv, md >>

(***************************************************************************)
(* main, lines 274-279: one iteration of the chunk loop                    *)
(***************************************************************************)
ChunkIteration ==
    /\ pc = "chunk_loop"
    /\ idx < Len(chunks)
    /\ \E outcome \in ApiOutcomes :
          LET context  == extend_context(contexto_acumulado, chunks[idx + 1])
              k        == Len(tutorial_requests) + 1
              tutorial == generate_or_update_tutorial(outcome, k)
          IN  /\ contexto_acumulado' = context
              /\ tutorial_requests' =
                    Append(tutorial_requests,
                           [context |-> context, chunk |-> idx + 1, outcome |-> outcome,
                            content |-> TutorialReply(outcome, k)])
              /\ tutorial_text' = update_tutorial_text(tutorial_text, tutorial)
    /\ idx' = idx + 1
    /\ UNCHANGED << pc, pdf, max_tokens, handles, full_text, page_num, cleaned_text,
                    chunks, chunk_tokens, page_images, img_index, temp_image_info,
                    describe_calls, files, image_descriptions, csv, md >>

(***************************************************************************)
(* extract_images_from_pdf                                                 *)
(***************************************************************************)
\* doc.extract_image(xref): a dict, a falsy value, or an exception
ExtractOutcomes == {"ok", "empty", "raise"}

\* lines 110-114
ImagesOpen ==
    /\ pc = "chunk_loop"
    /\ idx = Len(chunks)
    /\ handles' = handles \cup {"img_doc"}
    /\ temp_image_info' = <<>>
    /\ page_num' = 0
    /\ pc' = "img_page"
    /\ UNCHANGED << pdf, max_tokens, full_text, cleaned_text, chunks, chunk_tokens, idx,
                    contexto_acumulado, tutorial_text, tutorial_requests, page_images,
                    img_index, describe_calls, files, image_descriptions, csv, md >>

\* lines 116-130: the first loop over a page's images; it has no try, so an
\* exception of doc.extract_image leaves extract_images_from_pdf and main
PageMap ==
    /\ pc = "img_page"
    /\ page_num < Len(pdf.pages)
    /\ \E outs \in [1..pdf.pages[page_num + 1].nimg -> ExtractOutcomes] :
          IF \E i \in DOMAIN outs : outs[i] = "raise"
          THEN /\ pc' = "raised"
               /\ UNCHANGED << page_images, img_index >>
          ELSE /\ page_images' = page_images_of(outs, 1)
               /\ img_index' = 0
               /\ pc' = "img_proc"
    /\ UNCHANGED << pdf, max_tokens, handles, full_text, page_num, cleaned_text, chunks,
                    chunk_tokens, idx, contexto_acumulado, tutorial_text,
                    tutorial_requests, temp_image_info, describe_calls, files,
                    image_descriptions, csv, md >>

\* lines 133-166: one iteration of the second loop, inside its try
ProcessImage ==
    /\ pc = "img_proc"
    /\ img_index < Len(page_images)
    /\ \E save_ok \in BOOLEAN, rect \in {<<>>} \cup { <<y>> : y \in YPositions },
          read_ok \in BOOLEAN, api_ok \in BOOLEAN :
          LET image_name == <<page_num + 1, img_index + 1>>
              result == get_image_description(image_name, read_ok, api_ok)
          IN  IF ~save_ok
              THEN \* open or write raised: logged, continue
                   UNCHANGED << files, describe_calls, temp_image_info >>
              ELSE /\ files' = files \cup {image_name}
                   /\ describe_calls' =
                         Append(describe_calls,
                                [image_name |-> image_name, page |-> page_num,
                                 y_pos |-> y_pos_of(rect), context |-> contexto_acumulado,
                                 failure |-> IF ~read_ok THEN "read"
                                             ELSE IF ~api_ok THEN "api" ELSE "none",
                                 raised |-> result.raised,
                                 description |-> result.value,
                                 after_requests |-> Len(tutorial_requests)])
                   /\ temp_image_info' =
                         IF result.raised
                         THEN temp_image_info
                         ELSE Append(temp_image_info,
                                     [image_name |-> image_name,
                                      description |-> result.value,
                                      page |-> page_num, rect |-> rect,
                                      y_pos |-> y_pos_of(rect),
                                      xref |-> page_images[img_index + 1]])
    /\ img_index' = img_index + 1
    /\ UNCHANGED << pc, pdf, max_tokens, handles, full_text, page_num, cleaned_text,
                    chunks, chunk_tokens, idx, contexto_acumulado, tutorial_text,
                    tutorial_requests, page_images, image_descriptions, csv, md >>

\* the second loop is over: next page
PageDone ==
    /\ pc = "img_proc"
    /\ img_index = Len(page_images)
    /\ page_num' = page_num + 1
    /\ pc' = "img_page"
    /\ UNCHANGED << pdf, max_tokens, handles, full_text, cleaned_text, chunks,
                    chunk_tokens, idx, contexto_acumulado, tutorial_text,
                    tutorial_requests, page_images, img_index, temp_image_info,
                    describe_calls, files, image_descriptions, csv, md >>

\* lines 168-182, and the return into main's image_descriptions (line 283)
ImagesClose ==
    /\ pc = "img_page"
    /\ page_num = Len(pdf.pages)
    /\ handles' = handles \ {"img_doc"}
    /\ temp_image_info' = sort_temp_image_info(temp_image_info)
    /\ image_descriptions' = final_image_info(sort_temp_image_info(temp_image_info))
    /\ pc' = "csv"
    /\ UNCHANGED << pdf, max_tokens, full_text, page_num, cleaned_text, chunks,
                    chunk_tokens, idx, contexto_acumulado, tutorial_text,
                    tutorial_requests, page_images, img_index, describe_calls, files,
                    csv, md >>

(***************************************************************************)
(* main, lines 286-290: the CSV                                            *)
(***************************************************************************)
WriteCsv ==
    /\ pc = "csv"
    /\ csv' = [written |-> TRUE, header |-> <<"image_name", "description">>,
               rows |-> csv_rows(image_descriptions)]
    /\ pc' = "markdown"
    /\ UNCHANGED << pdf, max_tokens, handles, full_text, page_num, cleaned_text, chunks,
                    chunk_tokens, idx, contexto_acumulado, tutorial_text,
                    tutorial_requests, page_images, img_index, temp_image_info,
                    describe_calls, files, image_descriptions, md >>

(***************************************************************************)
(* create_output_markdown: an error of the open is caught and logged, and  *)
(* nothing is written                                                      *)
(***************************************************************************)
WriteMarkdown ==
    /\ pc = "markdown"
    /\ \E open_ok \in BOOLEAN :
          md' = IF open_ok
                THEN [written |-> TRUE,
                      blocks |-> markdown_blocks(image_descriptions, files),
                      tutorial |-> tutorial_text]
                ELSE NoMarkdown
    /\ pc' = "done"
    /\ UNCHANGED << pdf, max_tokens, handles, full_text, page_num, cleaned_text, chunks,
                    chunk_tokens, idx, contexto_acumulado, tutorial_text,
                    tutorial_requests, page_images, img_index, temp_image_info,
                    describe_calls, files, image_descriptions, csv >>

Next ==
    \/ MainStart
    \/ TextOpen
    \/ TextPage
    \/ TextClose
    \/ Split
    \/ ChunkIteration
    \/ ImagesOpen
    \/ PageMap
    \/ ProcessImage
    \/ PageDone
    \/ ImagesClose
    \/ WriteCsv
    \/ WriteMarkdown

Spec == Init /\ [][Next]_vars

(***************************************************************************)
(* split_text_into_chunks on its own: any text, any max_tokens >= 1        *)
(***************************************************************************)
InitChunk ==
    /\ pc = "split_call"
    /\ pdf = [exists |-> FALSE, pages |-> <<>>]
    /\ max_tokens \in 1..MaxN
    /\ cleaned_text \in SeqsUpTo(Chars, MaxTextLen)
    /\ Idle

SplitCall ==
    /\ pc = "split_call"
    /\ chunks' = split_text_into_chunks(cleaned_text, max_tokens)
    /\ chunk_tokens' = token_windows(encode(cleaned_text), max_tokens)
    /\ pc' = "split_return"
    /\ UNCHANGED << pdf, max_tokens, handles, full_text, page_num, cleaned_text, idx,
                    contexto_acumulado, tutorial_text, tutorial_requests, page_images,
                    img_index, temp_image_info, describe_calls, files,
                    image_descriptions, csv, md >>

NextChunk == SplitCall

SpecChunk == InitChunk /\ [][NextChunk]_vars

(***************************************************************************)
(* Properties                                                              *)
(***************************************************************************)
Range(s) == { s[k] : k \in DOMAIN s }

\* extract_images_from_pdf has returned into main
ImagesReturned == pc \in {"csv", "markdown", "done"} /\ pdf.exists

\* extract_text_from_pdf has returned into main
TextReturned ==
    pc \in {"split", "chunk_loop", "img_page", "img_proc", "raised", "csv", "markdown", "done"}
        /\ pdf.exists

\* extract_images_from_pdf has returned or raised
ImagesEnded == pc \in {"raised", "csv", "markdown", "done"} /\ pdf.exists

\* (page, y) of a, (page, y) of b, compared lexicographically
LexLE(a, b) == a.page < b.page \/ (a.page = b.page /\ a.y_pos <= b.y_pos)

\* the get_image_description call made for the image of that name
CallFor(image_name) == CHOOSE c \in Range(describe_calls) : c.image_name = image_name

Names(records) == { r.image_name : r \in Range(records) }

CeilDiv(a, b) == (a + b - 1) \div b

\* C1: the list extract_images_from_pdf returns, and the rows of the CSV, are
\* non-decreasing in (page index, vertical position), compared
\* lexicographically, a position that was not found counting as 0.
C1_OutputSortedByPageAndY ==
    ImagesReturned =>
        /\ \A i, j \in 1..Len(image_descriptions) :
              i < j => LexLE(CallFor(image_descriptions[i].image_name),
                             CallFor(image_descriptions[j].image_name))
        /\ csv.written =>
              /\ Len(csv.rows) = Len(image_descriptions)
              /\ \A i, j \in 1..Len(csv.rows) :
                    i < j => LexLE(CallFor(csv.rows[i].image_name),
                                   CallFor(csv.rows[j].image_name))

\* two images of one page, extracted at y=100 and then y=50, come out as
\* [y=50, y=100] in the CSV
C1_Witness ==
    /\ pc = "done"
    /\ csv.written
    /\ Len(describe_calls) = 2
    /\ describe_calls[1].page = describe_calls[2].page
    /\ describe_calls[1].y_pos = 100
    /\ describe_calls[2].y_pos = 50
    /\ Len(csv.rows) = 2
    /\ csv.rows[1].image_name = describe_calls[2].image_name
    /\ csv.rows[2].image_name = describe_calls[1].image_name

\* C2: for a non-empty token sequence and max_tokens >= 1, the chunks are
\* decoded from consecutive windows of the token sequence, each of 1 to
\* max_tokens tokens, whose concatenation in order is the token sequence.
C2_ChunksPartitionTokens ==
    (pc = "split_return" /\ cleaned_text # <<>>) =>
        /\ Len(chunks) = Len(chunk_tokens)
        /\ \A k \in 1..Len(chunks) :
              /\ chunks[k] = decode(chunk_tokens[k])
              /\ Len(chunk_tokens[k]) >= 1
              /\ Len(chunk_tokens[k]) <= max_tokens
        /\ Flatten(chunk_tokens) = encode(cleaned_text)

\* a text of 4 characters and 3 tokens, one of them a merged token, split with
\* max_tokens = 2: the last chunk is shorter
C2_Witness ==
    /\ pc = "split_return"
    /\ Len(cleaned_text) = 4
    /\ count_tokens(cleaned_text) = 3
    /\ max_tokens = 2
    /\ Len(chunks) = 2
    /\ Len(chunk_tokens[1]) = 2
    /\ Len(chunk_tokens[2]) = 1

\* C3: a text of L tokens gives ceil(L / max_tokens) chunks, all but the last
\* of max_tokens tokens; L = 0 gives no chunk, 0 < L <= max_tokens gives one;
\* 5000 tokens with max_tokens = 2000 give chunks of 2000, 2000 and 1000.
C3_ChunkCount ==
    pc = "split_return" =>
        LET L == count_tokens(cleaned_text)
            example == token_windows([i \in 1..5000 |-> <<"a">>], 2000)
        IN  /\ Len(chunks) = CeilDiv(L, max_tokens)
            /\ Len(chunk_tokens) = Len(chunks)
            /\ \A k \in 1..Len(chunks) :
                  Len(chunk_tokens[k]) =
                      IF k < Len(chunks) THEN max_tokens ELSE L - (k - 1) * max_tokens
            /\ L = 0 => chunks = <<>>
            /\ (0 < L /\ L <= max_tokens) => Len(chunks) = 1
            /\ [k \in 1..Len(example) |-> Len(example[k])] = <<2000, 2000, 1000>>

\* a text of 4 tokens has been split with max_tokens = 2 into two full chunks
C3_Witness ==
    /\ pc = "split_return"
    /\ count_tokens(cleaned_text) = 4
    /\ max_tokens = 2
    /\ Len(chunks) = 2
    /\ Len(chunk_tokens[2]) = 2

NoImages == pdf.exists /\ \A p \in DOMAIN pdf.pages : pdf.pages[p].nimg = 0

\* C5: on a document without images main never raises and always gets to its
\* end, makes no get_image_description call, writes only the header to the
\* CSV and no image block to the Markdown, whatever the tutorial calls did.
C5_NoImagesNoImageOutput ==
    NoImages =>
        /\ pc # "raised"
        /\ pc = "done" \/ ENABLED Next
        /\ describe_calls = <<>>
        /\ files = {}
        /\ image_descriptions = <<>>
        /\ csv.rows = <<>>
        /\ md.blocks = <<>>
        /\ pc \in {"markdown", "done"} =>
              csv.written /\ csv.header = <<"image_name", "description">>

\* main has ended on a two-page document without images, one tutorial call
\* having failed
C5_Witness ==
    /\ pc = "done"
    /\ NoImages
    /\ Len(pdf.pages) = 2
    /\ \E q \in Range(tutorial_requests) : q.outcome = "error"
    /\ csv.written
    /\ md.written

\* C6 as claimed: the get_image_description calls of a document are made in
\* sorted order, non-decreasing in (page index, vertical position).
C6_CallsInSortedOrder ==
    \A i, j \in 1..Len(describe_calls) :
        i < j => LexLE(describe_calls[i], describe_calls[j])

\* C6 as amended: the calls are made during extraction, before the sort, in
\* extraction order: increasing in (page index, index within the page), so
\* non-decreasing in the page index alone; nothing is sorted or returned
\* before the last call; each record carries the description returned by the
\* call made for its image.
C6_CallsInExtractionOrder ==
    /\ \A i, j \in 1..Len(describe_calls) :
          i < j =>
              /\ describe_calls[i].page <= describe_calls[j].page
              /\ describe_calls[i].image_name[1] < describe_calls[j].image_name[1]
                    \/ /\ describe_calls[i].image_name[1] = describe_calls[j].image_name[1]
                       /\ describe_calls[i].image_name[2] < describe_calls[j].image_name[2]
    /\ pc \in {"img_page", "img_proc"} =>
          /\ image_descriptions = <<>>
          /\ Len(temp_image_info) = Len(describe_calls)
          /\ \A k \in 1..Len(describe_calls) :
                temp_image_info[k].image_name = describe_calls[k].image_name
    /\ ImagesReturned =>
          /\ Names(image_descriptions) = Names(describe_calls)
          /\ \A r \in Range(image_descriptions) :
                r.description = CallFor(r.image_name).description

\* the two images of a page were described at y=100 and then at y=50, and the
\* returned list holds them the other way round, each with its own description
C6_Witness ==
    /\ pc = "done"
    /\ Len(describe_calls) = 2
    /\ describe_calls[1].page = describe_calls[2].page
    /\ describe_calls[1].y_pos = 100
    /\ describe_calls[2].y_pos = 50
    /\ describe_calls[1].failure = "none"
    /\ describe_calls[2].failure = "none"
    /\ Len(image_descriptions) = 2
    /\ image_descriptions[1].description = describe_calls[2].description
    /\ image_descriptions[2].description = describe_calls[1].description
    /\ image_descriptions[1].description # image_descriptions[2].description

\* C7: no error of a single image ends extract_images_from_pdf or main by an
\* exception, and every image that was extracted and saved has its record in
\* the result.
C7_SingleImageErrorIsolated ==
    /\ pc # "raised"
    /\ ImagesReturned => Names(image_descriptions) = files

\* the tutorial text the code should hold after the requests made so far:
\* the reply of the last one that came back with a non-empty reply
RECURSIVE LastNonEmptyReply(_)
LastNonEmptyReply(requests) ==
    IF requests = <<>> THEN <<>>
    ELSE LET last == requests[Len(requests)]
         IN  IF last.outcome = "text" THEN last.content
             ELSE LastNonEmptyReply(SubSeq(requests, 1, Len(requests) - 1))

\* C8 as claimed: after an iteration whose call succeeded, the tutorial text
\* is that call's output, whatever the output is.
C8_SuccessAlwaysReplaces ==
    (tutorial_requests # <<>>
        /\ tutorial_requests[Len(tutorial_requests)].outcome # "error")
    => tutorial_text = tutorial_requests[Len(tutorial_requests)].content

\* C8 as amended: the tutorial text is the output of the last call that
\* succeeded with a non-empty output (a failed call and an empty output both
\* leave it as it was), and is empty only if there was no such call; the k-th
\* request is made for the k-th chunk, one request per chunk processed.
C8_LastNonEmptyReplyKept ==
    pdf.exists =>
        /\ Len(tutorial_requests) = idx
        /\ idx <= Len(chunks)
        /\ \A k \in 1..Len(tutorial_requests) : tutorial_requests[k].chunk = k
        /\ tutorial_text = LastNonEmptyReply(tutorial_requests)
        /\ pc \in {"img_page", "img_proc", "raised", "csv", "markdown", "done"} =>
              Len(tutorial_requests) = Len(chunks)
        /\ md.written => md.tutorial = tutorial_text

\* the first call gave a text, the second one succeeded with an empty output,
\* and the loop ended with the first text
C8_Witness ==
    /\ pc = "done"
    /\ Len(tutorial_requests) = 2
    /\ tutorial_requests[1].outcome = "text"
    /\ tutorial_requests[2].outcome = "empty"
    /\ tutorial_text = tutorial_requests[1].content
    /\ tutorial_text # <<>>

\* the chunks 1..k, each after a newline, in order
RECURSIVE ContextOf(_, _)
ContextOf(cs, k) ==
    IF k = 0 THEN <<>> ELSE ContextOf(cs, k - 1) \o <<NL>> \o cs[k]

IsPrefix(a, b) == Len(a) <= Len(b) /\ SubSeq(b, 1, Len(a)) = a

\* C9 as claimed: the accumulated context is the concatenation of the chunks
\* processed so far.
C9_ContextIsConcatenationOfChunks ==
    pc \in {"chunk_loop", "img_page", "img_proc", "raised", "csv", "markdown", "done"} =>
        contexto_acumulado = Flatten(SubSeq(chunks, 1, idx))

\* C9 as amended: the accumulated context is the concatenation, in order, of
\* a newline followed by the chunk, for each chunk processed so far; the k-th
\* tutorial request carries the context of the chunks 1..k, each context a
\* prefix of the next; every get_image_description call is made after the
\* last tutorial request and carries the context of all the chunks.
C9_ContextIsNewlinePrefixedChunks ==
    pc \in {"chunk_loop", "img_page", "img_proc", "raised", "csv", "markdown", "done"} =>
        /\ contexto_acumulado = ContextOf(chunks, idx)
        /\ \A k \in 1..Len(tutorial_requests) :
              /\ tutorial_requests[k].context = ContextOf(chunks, k)
              /\ k > 1 => IsPrefix(tutorial_requests[k - 1].context,
                                    tutorial_requests[k].context)
              /\ IsPrefix(tutorial_requests[k].context, contexto_acumulado)
        /\ \A c \in Range(describe_calls) :
              /\ c.after_requests = Len(chunks)
              /\ Len(tutorial_requests) = Len(chunks)
              /\ c.context = ContextOf(chunks, Len(chunks))

\* an image was described after the two chunks of a document had been
\* processed, with both chunks in its context
C9_Witness ==
    /\ pc = "done"
    /\ Len(chunks) = 2
    /\ chunks[1] # chunks[2]
    /\ Len(tutorial_requests) = 2
    /\ describe_calls # <<>>
    /\ describe_calls[1].context = <<NL>> \o chunks[1] \o <<NL>> \o chunks[2]

\* C10: once an operation has returned or raised, no handle it opened is
\* still open.
C10_HandlesReleasedAtEnd ==
    /\ TextReturned => "text_doc" \notin handles
    /\ ImagesEnded => "img_doc" \notin handles
    /\ pc \in {"done", "raised"} => handles = {}

====
